---- MODULE Spec2Model ----
(***************************************************************************)
(* The five request handlers of src/src/controllers.ts over the User      *)
(* collection.  A JSON object is a function from the names of the fields  *)
(* it carries to their values, so a field the object lacks is a name      *)
(* outside its DOMAIN.  Every handler awaits one call of the User model   *)
(* and sends one response; the model (src/models.ts) is not part of the   *)
(* sources, so its five operations follow sections 3 and 4 of the         *)
(* specification.                                                          *)
(***************************************************************************)
EXTENDS Integers, Sequences, FiniteSets, TLC

\* Number of identifiers the store can hand out.
MaxUsers == 2

Ids == 1..MaxUsers

Names == {"John Doe", "Jane Smith"}
Emails == {"john@example.com"}
Ages == {25}

\* What a failing store call rejects with; NoError is a call that resolves.
NoError == "ok"
Errors == {"Database error"}
Outcomes == {NoError} \cup Errors

NoBody == <<>>

NameParts == {NoBody} \cup {[name |-> v] : v \in {""} \cup Names}
EmailParts == {NoBody} \cup {[email |-> v] : v \in {""} \cup Emails}

\* Request bodies of POST /users: every way of carrying or lacking a name and
\* an email, and a complete body that carries an age as well.
CreateBodies ==
  {n @@ e : n \in NameParts, e \in EmailParts}
    \cup {[name |-> "Jane Smith", email |-> "john@example.com", age |-> a] : a \in Ages}

\* Request bodies of PUT /users/:id: those of POST whose name and email are
\* either missing or non-empty, and complete bodies that carry an identifier
\* of their own.
Bodies ==
  {b \in CreateBodies : \A f \in DOMAIN b : f = "age" \/ b[f] # ""}
    \cup {[name |-> "John Doe", email |-> "john@example.com", _id |-> i] : i \in Ids}

\* What mongoose.connect rejects with when the store cannot be reached.
ConnectErrors == {"connect ECONNREFUSED 127.0.0.1:27017", "Server selection timed out"}

VARIABLES users, nextId, res, created, deleted, proc

vars == <<users, nextId, res, created, deleted, proc>>

\* JavaScript's !b[f]: the field is missing or is the empty string.
Falsy(b, f) == f \notin DOMAIN b \/ b[f] = ""

\* What a store call hands back: it rejects with err or resolves with value,
\* and leaves the collection as users.
Rejected(err, u) == [err |-> err, found |-> FALSE, value |-> NoBody, users |-> u]
Resolved(found, v, u) == [err |-> NoError, found |-> found, value |-> v, users |-> u]

\* Arrays over the documents of a collection, one entry per document.
Listings(u) == {s \in [1..Cardinality(DOMAIN u) -> DOMAIN u] : \A i, j \in DOMAIN s : i # j => s[i] # s[j]}

find(u, order, err) ==
  IF err # NoError THEN Rejected(err, u)
  ELSE Resolved(TRUE, [k \in DOMAIN order |-> u[order[k]]], u)

findById(u, id, err) ==
  IF err # NoError THEN Rejected(err, u)
  ELSE IF id \in DOMAIN u THEN Resolved(TRUE, u[id], u)
  ELSE Resolved(FALSE, NoBody, u)

\* new User(body): the document to insert.
NewUser(body) == body

\* Inserts doc under the identifier oid, which the store assigns.
save(u, doc, oid, err) ==
  IF err # NoError THEN Rejected(err, u)
  ELSE Resolved(TRUE, [_id |-> oid] @@ doc, (oid :> ([_id |-> oid] @@ doc)) @@ u)

ImmutableId == "Performing an update on the path '_id' would modify the immutable field '_id'"

\* {new: true}: resolves with the document as it is after the update.
findByIdAndUpdate(u, id, body, err) ==
  IF err # NoError THEN Rejected(err, u)
  ELSE IF id \notin DOMAIN u THEN Resolved(FALSE, NoBody, u)
  ELSE IF "_id" \in DOMAIN body /\ body._id # id THEN Rejected(ImmutableId, u)
  ELSE Resolved(TRUE, body @@ u[id], (id :> (body @@ u[id])) @@ u)

findByIdAndDelete(u, id, err) ==
  IF err # NoError THEN Rejected(err, u)
  ELSE IF id \in DOMAIN u THEN Resolved(TRUE, u[id], [k \in DOMAIN u \ {id} |-> u[k]])
  ELSE Resolved(FALSE, NoBody, u)

\* res.status(s).json(j) of the request op id body, sent after the store
\* calls of the handler, the last of which rejected with raised (if any did).
Response(op, id, body, calls, raised, s, j) ==
  [op |-> op, id |-> id, body |-> body, calls |-> calls, raised |-> raised,
   sent |-> 1, status |-> s, json |-> j]

NoId == 0

Init ==
  /\ users = <<>>
  /\ nextId = 1
  /\ res = [op |-> "none", id |-> NoId, body |-> NoBody, calls |-> <<>>, raised |-> NoError, sent |-> 0, status |-> 0, json |-> NoBody]
  /\ created = <<>>
  /\ deleted = {}
  /\ proc = [pc |-> "await", conn |-> "pending", log |-> <<>>, err |-> NoError]

\* getUsers answering with the first document only.
getUsers_FirstOnly(order, err) ==
  LET r == find(users, order, err) IN
  /\ res' = IF r.err = NoError
            THEN Response("getUsers", NoId, NoBody, <<"find">>, r.err, 200,
                          SubSeq(r.value, 1, IF Len(r.value) = 0 THEN 0 ELSE 1))
            ELSE Response("getUsers", NoId, NoBody, <<"find">>, r.err, 500, [error |-> r.err])
  /\ users' = r.users
  /\ UNCHANGED <<nextId, created, deleted>>

getUsers(order, err) ==
  LET r == find(users, order, err) IN
  /\ res' = IF r.err = NoError
            THEN Response("getUsers", NoId, NoBody, <<"find">>, r.err, 200, r.value)
            ELSE Response("getUsers", NoId, NoBody, <<"find">>, r.err, 500, [error |-> r.err])
  /\ users' = r.users
  /\ UNCHANGED <<nextId, created, deleted>>

\* getUser looking up any one document, whatever the identifier.
getUser_AnyUser(id, err) ==
  LET any == IF users = <<>> THEN id ELSE CHOOSE k \in DOMAIN users : \A l \in DOMAIN users : k <= l
      r == findById(users, any, err) IN
  /\ res' = IF r.err # NoError
            THEN Response("getUser", id, NoBody, <<"findById">>, r.err, 500, [error |-> r.err])
            ELSE IF ~r.found
            THEN Response("getUser", id, NoBody, <<"findById">>, r.err, 404, [error |-> "User not found"])
            ELSE Response("getUser", id, NoBody, <<"findById">>, r.err, 200, r.value)
  /\ users' = r.users
  /\ UNCHANGED <<nextId, created, deleted>>

getUser(id, err) ==
  LET r == findById(users, id, err) IN
  /\ res' = IF r.err # NoError
            THEN Response("getUser", id, NoBody, <<"findById">>, r.err, 500, [error |-> r.err])
            ELSE IF ~r.found
            THEN Response("getUser", id, NoBody, <<"findById">>, r.err, 404, [error |-> "User not found"])
            ELSE Response("getUser", id, NoBody, <<"findById">>, r.err, 200, r.value)
  /\ users' = r.users
  /\ UNCHANGED <<nextId, created, deleted>>

\* createUser with the check of the email left out of the validation.
createUser_NameOnly(body, err) ==
  IF Falsy(body, "name")
  THEN /\ res' = Response("createUser", NoId, body, <<>>, NoError, 400, [error |-> "Name and email are required"])
       /\ UNCHANGED <<users, nextId, created, deleted>>
  ELSE LET newUser == NewUser(body)
           r == save(users, newUser, nextId, err) IN
       /\ nextId <= MaxUsers
       /\ res' = IF r.err = NoError
                 THEN Response("createUser", NoId, body, <<"save">>, r.err, 201, r.value)
                 ELSE Response("createUser", NoId, body, <<"save">>, r.err, 500, [error |-> r.err])
       /\ users' = r.users
       /\ nextId' = IF r.err = NoError THEN nextId + 1 ELSE nextId
       /\ created' = IF r.err = NoError THEN (nextId :> r.value) @@ created ELSE created
       /\ UNCHANGED deleted

\* createUser answering with the request body in place of the saved document.
createUser_EchoBody(body, err) ==
  IF Falsy(body, "name") \/ Falsy(body, "email")
  THEN /\ res' = Response("createUser", NoId, body, <<>>, NoError, 400, [error |-> "Name and email are required"])
       /\ UNCHANGED <<users, nextId, created, deleted>>
  ELSE LET newUser == NewUser(body)
           r == save(users, newUser, nextId, err) IN
       /\ nextId <= MaxUsers
       /\ res' = IF r.err = NoError
                 THEN Response("createUser", NoId, body, <<"save">>, r.err, 201, body)
                 ELSE Response("createUser", NoId, body, <<"save">>, r.err, 500, [error |-> r.err])
       /\ users' = r.users
       /\ nextId' = IF r.err = NoError THEN nextId + 1 ELSE nextId
       /\ created' = IF r.err = NoError THEN (nextId :> body) @@ created ELSE created
       /\ UNCHANGED deleted

\* createUser answering a failed save with a message of its own.
createUser_FixedMessage(body, err) ==
  IF Falsy(body, "name") \/ Falsy(body, "email")
  THEN /\ res' = Response("createUser", NoId, body, <<>>, NoError, 400, [error |-> "Name and email are required"])
       /\ UNCHANGED <<users, nextId, created, deleted>>
  ELSE LET newUser == NewUser(body)
           r == save(users, newUser, nextId, err) IN
       /\ nextId <= MaxUsers
       /\ res' = IF r.err = NoError
                 THEN Response("createUser", NoId, body, <<"save">>, r.err, 201, r.value)
                 ELSE Response("createUser", NoId, body, <<"save">>, r.err, 500, [error |-> "Internal Server Error"])
       /\ users' = r.users
       /\ nextId' = IF r.err = NoError THEN nextId + 1 ELSE nextId
       /\ created' = IF r.err = NoError THEN (nextId :> r.value) @@ created ELSE created
       /\ UNCHANGED deleted

createUser(body, err) ==
  IF Falsy(body, "name") \/ Falsy(body, "email")
  THEN /\ res' = Response("createUser", NoId, body, <<>>, NoError, 400, [error |-> "Name and email are required"])
       /\ UNCHANGED <<users, nextId, created, deleted>>
  ELSE LET newUser == NewUser(body)
           r == save(users, newUser, nextId, err) IN
       /\ nextId <= MaxUsers
       /\ res' = IF r.err = NoError
                 THEN Response("createUser", NoId, body, <<"save">>, r.err, 201, r.value)
                 ELSE Response("createUser", NoId, body, <<"save">>, r.err, 500, [error |-> r.err])
       /\ users' = r.users
       /\ nextId' = IF r.err = NoError THEN nextId + 1 ELSE nextId
       /\ created' = IF r.err = NoError THEN (nextId :> r.value) @@ created ELSE created
       /\ UNCHANGED deleted

\* updateUser without {new: true}: answers with the document as it was
\* before the update.
updateUser_OldDocument(id, body, err) ==
  LET r == findByIdAndUpdate(users, id, body, err) IN
  /\ res' = IF r.err # NoError
            THEN Response("updateUser", id, body, <<"findByIdAndUpdate">>, r.err, 400, [error |-> r.err])
            ELSE IF ~r.found
            THEN Response("updateUser", id, body, <<"findByIdAndUpdate">>, r.err, 404, [error |-> "User not found"])
            ELSE Response("updateUser", id, body, <<"findByIdAndUpdate">>, r.err, 200, users[id])
  /\ users' = r.users
  /\ created' = [k \in DOMAIN created \ {id} |-> created[k]]
  /\ UNCHANGED <<nextId, deleted>>

updateUser(id, body, err) ==
  LET r == findByIdAndUpdate(users, id, body, err) IN
  /\ res' = IF r.err # NoError
            THEN Response("updateUser", id, body, <<"findByIdAndUpdate">>, r.err, 400, [error |-> r.err])
            ELSE IF ~r.found
            THEN Response("updateUser", id, body, <<"findByIdAndUpdate">>, r.err, 404, [error |-> "User not found"])
            ELSE Response("updateUser", id, body, <<"findByIdAndUpdate">>, r.err, 200, r.value)
  /\ users' = r.users
  /\ created' = [k \in DOMAIN created \ {id} |-> created[k]]
  /\ UNCHANGED <<nextId, deleted>>

\* deleteUser without the check of what the store found.
deleteUser_NoCheck(id, err) ==
  LET r == findByIdAndDelete(users, id, err) IN
  /\ res' = IF r.err # NoError
            THEN Response("deleteUser", id, NoBody, <<"findByIdAndDelete">>, r.err, 500, [error |-> r.err])
            ELSE Response("deleteUser", id, NoBody, <<"findByIdAndDelete">>, r.err, 204, NoBody)
  /\ users' = r.users
  /\ created' = [k \in DOMAIN created \ {id} |-> created[k]]
  /\ deleted' = IF r.err = NoError /\ r.found THEN deleted \cup {id} ELSE deleted
  /\ UNCHANGED nextId

\* deleteUser looking the document up with findById, which removes nothing.
deleteUser_FindOnly(id, err) ==
  LET r == findById(users, id, err) IN
  /\ res' = IF r.err # NoError
            THEN Response("deleteUser", id, NoBody, <<"findById">>, r.err, 500, [error |-> r.err])
            ELSE IF ~r.found
            THEN Response("deleteUser", id, NoBody, <<"findById">>, r.err, 404, [error |-> "User not found"])
            ELSE Response("deleteUser", id, NoBody, <<"findById">>, r.err, 204, NoBody)
  /\ users' = r.users
  /\ created' = [k \in DOMAIN created \ {id} |-> created[k]]
  /\ deleted' = IF r.err = NoError /\ r.found THEN deleted \cup {id} ELSE deleted
  /\ UNCHANGED nextId

deleteUser(id, err) ==
  LET r == findByIdAndDelete(users, id, err) IN
  /\ res' = IF r.err # NoError
            THEN Response("deleteUser", id, NoBody, <<"findByIdAndDelete">>, r.err, 500, [error |-> r.err])
            ELSE IF ~r.found
            THEN Response("deleteUser", id, NoBody, <<"findByIdAndDelete">>, r.err, 404, [error |-> "User not found"])
            ELSE Response("deleteUser", id, NoBody, <<"findByIdAndDelete">>, r.err, 204, NoBody)
  /\ users' = r.users
  /\ created' = [k \in DOMAIN created \ {id} |-> created[k]]
  /\ deleted' = IF r.err = NoError /\ r.found THEN deleted \cup {id} ELSE deleted
  /\ UNCHANGED nextId

\* connectDB with the throw left out of its catch block: the failure is
\* logged and the promise of connectDB resolves.
connectDB_Swallow(outcome) ==
  /\ proc.pc = "await"
  /\ proc' = IF outcome = NoError
             THEN [pc |-> "resolved", conn |-> "up",
                   log |-> Append(proc.log, <<"Database connected">>), err |-> NoError]
             ELSE [pc |-> "resolved", conn |-> "down",
                   log |-> Append(proc.log, <<"Database connection error", outcome>>), err |-> NoError]
  /\ UNCHANGED <<users, nextId, res, created, deleted>>

\* The rest of connectDB, from the point where the await of mongoose.connect
\* settles: the call itself is made when the module is loaded.
connectDB(outcome) ==
  /\ proc.pc = "await"
  /\ proc' = IF outcome = NoError
             THEN [pc |-> "resolved", conn |-> "up",
                   log |-> Append(proc.log, <<"Database connected">>), err |-> NoError]
             ELSE [pc |-> "rejected", conn |-> "down",
                   log |-> Append(proc.log, <<"Database connection error", outcome>>), err |-> outcome]
  /\ UNCHANGED <<users, nextId, res, created, deleted>>

\* The promise of the call connectDB() at module level has no handler: a
\* rejection of it ends the process.
unhandledRejection ==
  /\ proc.pc = "rejected"
  /\ proc' = [proc EXCEPT !.pc = "exited"]
  /\ UNCHANGED <<users, nextId, res, created, deleted>>

\* The process is up and answers requests: its start-up has completed.
Serving == proc.pc = "resolved"

Next ==
  \/ \E outcome \in {NoError} \cup ConnectErrors : connectDB(outcome)
  \/ unhandledRejection
  \/ \E order \in Listings(users), err \in Outcomes : Serving /\ getUsers(order, err) /\ UNCHANGED proc
  \/ \E id \in Ids, err \in Outcomes : Serving /\ getUser(id, err) /\ UNCHANGED proc
  \/ \E body \in CreateBodies, err \in Outcomes : Serving /\ createUser(body, err) /\ UNCHANGED proc
  \/ \E id \in Ids, body \in Bodies, err \in Outcomes : Serving /\ updateUser(id, body, err) /\ UNCHANGED proc
  \/ \E id \in Ids, err \in Outcomes : Serving /\ deleteUser(id, err) /\ UNCHANGED proc

Spec == Init /\ [][Next]_vars

\* The request recorded in r lacks a non-empty name or a non-empty email.
MissingField(r) == Falsy(r.body, "name") \/ Falsy(r.body, "email")

Required == [error |-> "Name and email are required"]
NotFound == [error |-> "User not found"]

\* C1: a PUT /users/:id whose body lacks a non-empty name or a non-empty
\* email is answered with 400 and {error: "Name and email are required"}
\* without the store's update being invoked, whether or not the identifier
\* matches a stored record.
C1_UpdateRejectsMissingField ==
  (res.op = "updateUser" /\ MissingField(res))
    => (res.status = 400 /\ res.json = Required /\ res.calls = <<>>)

\* C2: a POST /users whose body lacks a non-empty name or a non-empty email
\* is answered with 400 and {error: "Name and email are required"}, makes no
\* store call, and leaves the stored records as they were.
C2_CreateRejectsMissingField ==
  [][(res'.op = "createUser" /\ MissingField(res'))
       => /\ res'.status = 400
          /\ res'.json = Required
          /\ res'.sent = 1
          /\ res'.calls = <<>>
          /\ users' = users]_vars

C2_Witness ==
  /\ res.op = "createUser"
  /\ res.status = 400
  /\ "name" \in DOMAIN res.body
  /\ res.body.name # ""
  /\ users # <<>>

\* C3: a POST /users with a non-empty name and email whose save succeeds is
\* answered with 201 and a body whose name and email are the submitted ones
\* and whose identifier no stored record had; exactly one record, the one
\* of the answer, is added to the store.
C3_CreateAddsOneRecord ==
  [][(res'.op = "createUser" /\ ~MissingField(res') /\ res'.raised = NoError)
       => /\ res'.status = 201
          /\ res'.calls = <<"save">>
          /\ {"_id", "name", "email"} \subseteq DOMAIN res'.json
          /\ res'.json.name = res'.body.name
          /\ res'.json.email = res'.body.email
          /\ res'.json._id \notin DOMAIN users
          /\ DOMAIN users' = DOMAIN users \cup {res'.json._id}
          /\ users'[res'.json._id] = res'.json
          /\ \A k \in DOMAIN users : users'[k] = users[k]]_vars

C3_Witness ==
  /\ res.op = "createUser"
  /\ res.status = 201
  /\ res.body.name = "Jane Smith"
  /\ "age" \in DOMAIN res.body
  /\ Cardinality(DOMAIN users) = 2

\* C4: a get-by-id, an update with a name and an email, or a delete whose
\* identifier matches no stored record, and on which the store raises no
\* error, is answered with 404 and {error: "User not found"}, and the
\* stored records stay as they were.
C4_UnknownIdentifier ==
  [][(/\ res'.op \in {"getUser", "updateUser", "deleteUser"}
      /\ res'.id \notin DOMAIN users
      /\ res'.raised = NoError
      /\ (res'.op = "updateUser" => ~MissingField(res')))
       => /\ res'.status = 404
          /\ res'.json = NotFound
          /\ users' = users]_vars

C4_Witness ==
  /\ res.op = "updateUser"
  /\ res.status = 404
  /\ ~MissingField(res)
  /\ res.id \in deleted
  /\ users # <<>>

\* C5: a DELETE of a stored record is answered with 204 and an empty body
\* and removes the record; from then on, whatever other requests come in
\* between, every DELETE of that identifier on which the store raises no
\* error is answered with 404 and {error: "User not found"}, never with 204.
C5_DeleteOnce ==
  [][/\ deleted' \cap DOMAIN users' = {}
     /\ (res'.op = "deleteUser" /\ res'.raised = NoError /\ res'.id \in DOMAIN users)
          => (res'.status = 204 /\ DOMAIN res'.json = {} /\ res'.id \notin DOMAIN users')
     /\ (res'.op = "deleteUser" /\ res'.raised = NoError /\ res'.id \in deleted)
          => (res'.status = 404 /\ res'.json = NotFound)]_vars

C5_Witness ==
  /\ res.op = "deleteUser"
  /\ res.status = 404
  /\ res.id \in deleted
  /\ users # <<>>
  /\ \E k \in DOMAIN users : k > res.id

C7_ListAll ==
  [][(res'.op = "getUsers" /\ res'.raised = NoError)
       => /\ res'.status = 200
          /\ Len(res'.json) = Cardinality(DOMAIN users)
          /\ \A k \in DOMAIN users : \E n \in 1..Len(res'.json) : res'.json[n] = users[k]
          /\ \A n \in 1..Len(res'.json) : "_id" \in DOMAIN res'.json[n]
          /\ users' = users]_vars

C7_Witness ==
  /\ res.op = "getUsers"
  /\ res.status = 200
  /\ Len(res.json) = 2
  /\ res.json[1]._id > res.json[2]._id

C7_WitnessEmpty ==
  /\ res.op = "getUsers"
  /\ res.status = 200
  /\ Len(res.json) = 0
  /\ deleted # {}

C9_UpdateStoreError500 ==
  (res.op = "updateUser" /\ ~MissingField(res) /\ res.raised # NoError)
    => (res.status = 500 /\ res.json = [error |-> res.raised])

\* C10: a PUT /users/:id with a name and an email, for a stored record and
\* with no store error, is answered with 200 and the record as it is after
\* the update: the submitted fields have the submitted values, the
\* identifier is the one the record had (also when the body carries an
\* identifier), and every other record is as it was.
C10_UpdateInPlace ==
  [][(/\ res'.op = "updateUser"
      /\ ~MissingField(res')
      /\ res'.id \in DOMAIN users
      /\ res'.raised = NoError)
       => /\ res'.status = 200
          /\ DOMAIN users' = DOMAIN users
          /\ res'.json = users'[res'.id]
          /\ \A f \in DOMAIN res'.body \ {"_id"} : f \in DOMAIN res'.json /\ res'.json[f] = res'.body[f]
          /\ res'.json._id = users[res'.id]._id
          /\ res'.json._id = res'.id
          /\ \A k \in DOMAIN users \ {res'.id} : users'[k] = users[k]]_vars

C10_Witness ==
  /\ res.op = "updateUser"
  /\ res.status = 200
  /\ "_id" \in DOMAIN res.body
  /\ res.json.name # "Jane Smith"
  /\ Cardinality(DOMAIN users) = 2

\* C11: when the connection to the store fails at start-up, connectDB logs
\* the failure and rethrows the error, which nothing swallows: the promise of
\* connectDB is rejected with that error and the process ends, so it is
\* never up and answering requests after a failed connection attempt.
C11_ConnectionFailureFatal ==
  proc.conn = "down"
    => /\ proc.log = <<(<<"Database connection error", proc.err>>)>>
       /\ proc.err \in ConnectErrors
       /\ proc.pc \in {"rejected", "exited"}
       /\ ~Serving
       /\ res.op = "none"

C11_Witness ==
  /\ proc.conn = "down"
  /\ proc.pc = "exited"
  /\ proc.err = "Server selection timed out"
====
